---- MODULE Spec2Model ----
(***************************************************************************)
(* A model of .ci/merge.py: the line-level document model (Line,           *)
(* EmptyLine, CommentLine, CodeLine), the parser (Document.__init__), the  *)
(* serializer (Document.__str__), the path resolver (computeKey, get,      *)
(* filterListByKeyPrefix), the leaf extractor (getKeys) and merge().       *)
(*                                                                         *)
(* Texts, keys, values, comments and yaml paths are strings, handled with  *)
(* the slicing, find and strip operations the Python code applies to them. *)
(* Line objects live in one heap shared by both documents (a Python        *)
(* reference is a heap index, None is 0), so that aliasing between the old *)
(* and the new document is visible.                                        *)
(***************************************************************************)
EXTENDS Integers, Sequences, FiniteSets, TLC

VARIABLES
    txt,        \* text handed to Document(...) (parser specification)
    doc,        \* the Document built from txt: [fault, content]
    out,        \* str(doc), once serialized: [cyc, s]
    heap,       \* all Line objects of all documents
    keyCache,   \* Document.keyCache of the document under address computation
    lastKey,    \* what the last computeKey call returned: [cl, key]
    lastGet,    \* what the last get call was asked and gave: [key, kind, id, run]
    inp,        \* merge inputs: [src, tgt, ann] (old text, new text, mergeAnnotations)
    dold,       \* old Document: [content, keyCache]
    dnew,       \* new Document: [content, keyCache]
    pc,         \* position of merge(): annotate, keys, loop, done, fault, hang
    annTodo,    \* keys of mergeAnnotations not yet iterated
    leaves,     \* dnew.getKeys(): yaml path -> line
    todo,       \* yaml paths of leaves not yet iterated
    warnings,   \* merge's warnings list
    errors,     \* merge's errors list
    fault,      \* the uncaught Python exception that ended merge, or ""
    log,        \* history: one record per iteration of merge's loop
    heap0       \* history: heap when merge was called

vars == <<txt, doc, out, heap, keyCache, lastKey, lastGet, inp, dold, dnew, pc, annTodo,
          leaves, todo, warnings, errors, fault, log, heap0>>

(***************************************************************************)
(* Python string primitives.                                               *)
(***************************************************************************)
Min(a, b) == IF a < b THEN a ELSE b
Max(a, b) == IF a > b THEN a ELSE b

\* A slice bound as Python normalises it: negative counts from the end.
Norm(s, i) == IF i < 0 THEN Max(0, Len(s) + i) ELSE Min(i, Len(s))

\* s[a:b]
Slice(s, a, b) ==
    LET lo == Norm(s, a)
        hi == Norm(s, b)
    IN  IF lo >= hi THEN "" ELSE SubSeq(s, lo + 1, hi)

\* s[a:]
From(s, a) == IF Norm(s, a) >= Len(s) THEN "" ELSE SubSeq(s, Norm(s, a) + 1, Len(s))

\* s[:b]
Upto(s, b) == Slice(s, 0, b)

\* s[i], for 0 <= i < len(s)
At(s, i) == SubSeq(s, i + 1, i + 1)

\* least and greatest element of a non-empty set of integers
Least(S) == CHOOSE j \in S : \A k \in S : j <= k
Greatest(S) == CHOOSE j \in S : \A k \in S : j >= k

\* s.find(c, i) for a one-character c
FindFrom(s, c, i) ==
    LET S == {j \in i..(Len(s) - 1) : At(s, j) = c}
    IN  IF S = {} THEN -1 ELSE Least(S)

\* s.find(c) for a one-character c
Find(s, c) == FindFrom(s, c, 0)

\* s.rfind(c) for a one-character c
RFind(s, c) ==
    LET S == {j \in 0..(Len(s) - 1) : At(s, j) = c}
    IN  IF S = {} THEN -1 ELSE Greatest(S)

Whitespace == {" ", "\t", "\r"}

LStrip(s) ==
    LET S == {j \in 0..(Len(s) - 1) : At(s, j) \notin Whitespace}
    IN  IF S = {} THEN "" ELSE From(s, Least(S))

RStrip(s) ==
    LET S == {j \in 0..(Len(s) - 1) : At(s, j) \notin Whitespace}
    IN  IF S = {} THEN "" ELSE Upto(s, Greatest(S) + 1)

\* s.strip()
Strip(s) == RStrip(LStrip(s))

RECURSIVE Spaces(_)
Spaces(n) == IF n <= 0 THEN "" ELSE " " \o Spaces(n - 1)

\* s.split("\n")
RECURSIVE Split(_)
Split(s) ==
    LET p == Find(s, "\n")
    IN  IF p < 0 THEN <<s>> ELSE <<Upto(s, p)>> \o Split(From(s, p + 1))

RECURSIVE ToStr(_)
\* "{}".format(n) for an integer n >= 0
ToStr(n) ==
    LET d == SubSeq("0123456789", (n % 10) + 1, (n % 10) + 1)
    IN  IF n < 10 THEN d ELSE ToStr(n \div 10) \o d

tabsToSpaceFactor == 2

RECURSIVE replaceTabs(_, _)
replaceTabs(d, factor) ==
    LET p == Find(d, "\t")
    IN  IF p < 0 THEN d
        ELSE Upto(d, p) \o Spaces(factor) \o replaceTabs(From(d, p + 1), factor)

(***************************************************************************)
(* Lines.  cls is the class; a CodeLine's key is None when hasKey is       *)
(* FALSE; its value is a string (vt = "str", vs), a list of lines          *)
(* (vt = "list", vl) or None (vt = "none").                                *)
(***************************************************************************)
EmptyLine ==
    [cls |-> "EmptyLine", indent |-> 0, hasKey |-> FALSE, key |-> "", vt |-> "none",
     vs |-> "", vl |-> <<>>, comment |-> "", parent |-> 0, next |-> 0,
     listDash |-> FALSE]

CommentLine(indent, comment) ==
    [EmptyLine EXCEPT !.cls = "CommentLine", !.indent = indent, !.comment = comment]

CodeLine(indent, hasKey, key, vt, vs, comment, parent, listDash) ==
    [cls |-> "CodeLine", indent |-> indent, hasKey |-> hasKey, key |-> key, vt |-> vt,
     vs |-> vs, vl |-> <<>>, comment |-> comment, parent |-> parent, next |-> 0,
     listDash |-> listDash]

IsCodeLine(h, i) == h[i].cls = "CodeLine"

\* CodeLine.__str__, CommentLine.__str__, EmptyLine.__str__
LineStr(l) ==
    IF l.cls = "EmptyLine" THEN ""
    ELSE IF l.cls = "CommentLine" THEN Spaces(l.indent) \o l.comment
    ELSE Spaces(l.indent)
         \o (IF l.listDash THEN "- " ELSE "")
         \o (IF l.hasKey /\ l.key # "" THEN l.key \o ": " ELSE "")
         \o (IF l.vt = "str" THEN l.vs ELSE "")
         \o (IF l.comment # "" THEN " # " \o l.comment ELSE "")

(***************************************************************************)
(* Document.__init__                                                       *)
(***************************************************************************)
Quote == {"\"", "'"}

\* re.finditer(r"(\"|\').*?\1", rawLine): the (start, end) of each quoted area
RECURSIVE QuotePositions(_, _)
QuotePositions(raw, i) ==
    IF i >= Len(raw) THEN <<>>
    ELSE IF At(raw, i) \in Quote /\ FindFrom(raw, At(raw, i), i + 1) >= 0
    THEN <<<<i, FindFrom(raw, At(raw, i), i + 1) + 1>>>>
         \o QuotePositions(raw, FindFrom(raw, At(raw, i), i + 1) + 1)
    ELSE QuotePositions(raw, i + 1)

\* the inner loop over quotePositions for the '#' at c: TRUE when it is in quotes
RECURSIVE InQuotes(_, _, _)
InQuotes(c, qs, k) ==
    IF k > Len(qs) THEN FALSE
    ELSE IF c > qs[k][1] /\ c < qs[k][2] THEN TRUE
    ELSE IF c < qs[k][1] THEN FALSE
    ELSE InQuotes(c, qs, k + 1)

\* position of the first unquoted '#' at or after i, or -1
RECURSIVE CommentPos(_, _, _)
CommentPos(raw, qs, i) ==
    LET c == FindFrom(raw, "#", i)
    IN  IF c < 0 THEN -1
        ELSE IF InQuotes(c, qs, 1) THEN CommentPos(raw, qs, c + 1)
        ELSE c

\* The fields of the CodeLine for rawLine (lines 189-230 and 247), or the fault.
ParseCode(raw0) ==
    LET cpos    == CommentPos(raw0, QuotePositions(raw0, 0), 0)
        comment == IF cpos >= 0 THEN Strip(From(raw0, cpos + 1)) ELSE ""
        raw     == IF cpos >= 0 THEN Upto(raw0, cpos) ELSE raw0
        m       == Find(raw, ":")
        k0      == Strip(Upto(raw, m))
        v0      == Strip(raw)
        mval    == Strip(From(raw, m + 1))
    IN  IF m >= 0
        THEN IF k0 = ""
             THEN [fault |-> "IndexError"]
             ELSE [fault |-> "", hasKey |-> TRUE,
                   key |-> IF At(k0, 0) = "-" THEN Strip(From(k0, 1)) ELSE k0,
                   vt |-> IF mval = "" THEN "list" ELSE "str", vs |-> mval,
                   listDash |-> (At(k0, 0) = "-"), comment |-> comment]
        ELSE LET dash == At(v0, 0) = "-"
                 v    == IF dash THEN Strip(From(v0, 1)) ELSE v0
             IN  IF v = ""
                 THEN [fault |-> "IndexError"]
                 ELSE [fault |-> "", hasKey |-> FALSE, key |-> "", vt |-> "str",
                       vs |-> v, listDash |-> dash, comment |-> comment]

\* the "determine parent line" loop
RECURSIVE FindParent(_, _, _, _)
FindParent(h, p, indent, dash) ==
    IF p = 0 THEN 0
    ELSE IF \/ h[p].indent < indent /\ (~h[p].listDash \/ dash)
            \/ h[p].indent = indent /\ ~h[p].listDash /\ dash
    THEN p
    ELSE FindParent(h, h[p].parent, indent, dash)

\* re.search(r"\S", line).start(): index of the first non-space character, or -1
FirstNonSpace(line) ==
    LET S == {j \in 0..(Len(line) - 1) : At(line, j) \notin Whitespace}
    IN  IF S = {} THEN -1 ELSE Least(S)

\* "link line to previous line" and remember it as lastLine
LinkNew(ps, l, root) ==
    LET id == Len(ps.heap) + 1
        h1 == Append(ps.heap, l)
        h2 == IF ps.last # 0 THEN [h1 EXCEPT ![ps.last].next = id] ELSE h1
    IN  [ps EXCEPT !.heap = h2, !.last = id,
                   !.content = IF root THEN Append(@, id) ELSE @]

\* the new CodeLine is its parent's child, and the parent of what follows
Adopt(ps2, id, par, multi) ==
    IF par = 0 THEN [ps2 EXCEPT !.parent = id, !.multiline = multi]
    ELSE [ps2 EXCEPT !.parent = id, !.multiline = multi,
                     !.heap[par].vl = Append(@, id)]

\* "self.parent.value.append(self)" for the parsed fields c under parent par
AddCode(ps1, indent, c, par) ==
    IF par # 0 /\ ps1.heap[par].vt # "list"
    THEN [ps1 EXCEPT !.fault = "AttributeError"]
    ELSE Adopt(LinkNew(ps1, CodeLine(indent, c.hasKey, c.key, c.vt, c.vs, c.comment,
                                     par, c.listDash), par = 0),
               Len(ps1.heap) + 1, par,
               IF c.vt = "str" /\ At(c.vs, 0) \in {"|", ">"} THEN indent
               ELSE ps1.multiline)

\* CodeLine(line, indent, parentLine) for the parsed fields c
ParseCodeLine(ps1, indent, c) ==
    IF c.fault # "" THEN [ps1 EXCEPT !.fault = c.fault]
    ELSE AddCode(ps1, indent, c, FindParent(ps1.heap, ps1.parent, indent, c.listDash))

\* a line that is not blank and not inside a multi-line string
ParseRaw(ps1, indent, raw) ==
    IF At(raw, 0) = "#" THEN LinkNew(ps1, CommentLine(indent, raw), TRUE)
    ELSE ParseCodeLine(ps1, indent, ParseCode(raw))

\* a line whose first non-space character is at indent (-1: there is none)
ParseAt(ps, line, indent) ==
    IF indent < 0 THEN LinkNew(ps, EmptyLine, TRUE)
    ELSE IF ps.multiline >= 0 /\ indent > ps.multiline
    THEN IF ps.heap[ps.last].cls # "CodeLine"
         THEN [ps EXCEPT !.fault = "AttributeError"]
         ELSE [ps EXCEPT !.heap[ps.last].vs = @ \o "\n" \o line]
    ELSE ParseRaw(IF ps.multiline >= 0 THEN [ps EXCEPT !.multiline = -1] ELSE ps,
                  indent, From(line, indent))

\* One iteration of the loop "for line in doc" on parser state ps.
ParseLine(ps, line) ==
    IF ps.fault # "" THEN ps ELSE ParseAt(ps, line, FirstNonSpace(line))

RECURSIVE ParseLines(_, _, _)
ParseLines(ps, lines, i) ==
    IF i > Len(lines) THEN ps ELSE ParseLines(ParseLine(ps, lines[i]), lines, i + 1)

\* what the constructor leaves: [fault, heap, content]
Built(ps) == [fault |-> ps.fault, heap |-> ps.heap, content |-> ps.content]

\* Document(t) built on heap h; the keyCache starts empty.
Document(h, t) ==
    Built(ParseLines([heap |-> h, content |-> <<>>, parent |-> 0, last |-> 0,
                      multiline |-> -1, fault |-> ""],
                     Split(replaceTabs(t, tabsToSpaceFactor)), 1))

(***************************************************************************)
(* Document.__str__ over LineIterator: the lines from content[0] along     *)
(* .next.  A chain that comes back to a line it has left never ends: cyc.  *)
(***************************************************************************)
RECURSIVE Chain(_, _, _)
Chain(h, i, seen) ==
    IF i = 0 THEN [cyc |-> FALSE, ids |-> <<>>]
    ELSE IF i \in seen THEN [cyc |-> TRUE, ids |-> <<>>]
    ELSE LET r == Chain(h, h[i].next, seen \cup {i})
         IN  [cyc |-> r.cyc, ids |-> <<i>> \o r.ids]

RECURSIVE JoinLines(_, _, _)
JoinLines(h, ids, i) ==
    IF i > Len(ids) THEN "" ELSE LineStr(h[ids[i]]) \o "\n" \o JoinLines(h, ids, i + 1)

DocStr(h, content) ==
    LET c == Chain(h, content[1], {})
    IN  [cyc |-> c.cyc, s |-> Upto(JoinLines(h, c.ids, 1), -1)]

(***************************************************************************)
(* Document.computeKey, Document.filterListByKeyPrefix, Document.get.      *)
(* Each takes the heap h and the document's keyCache and hands back the    *)
(* cache as the call leaves it.                                            *)
(***************************************************************************)
\* the loop "determine index": list-marked lines of l up to and including cl
RECURSIVE ListIndex(_, _, _, _, _)
ListIndex(h, l, cl, i, index) ==
    IF i > Len(l) THEN index
    ELSE LET ix == IF h[l[i]].listDash THEN index + 1 ELSE index
         IN  IF l[i] = cl THEN ix ELSE ListIndex(h, l, cl, i + 1, ix)

\* a store that files the key under every line the cache holds
RememberAll(cache, cl, k) == [c \in DOMAIN cache \cup {cl} |-> k]

\* "self.keyCache[cl] = key"
Remember(cache, cl, k) == (cl :> k) @@ cache

RECURSIVE computeKey(_, _, _)
computeKey(h, cache, cl) ==
    IF cl \in DOMAIN cache THEN [key |-> cache[cl], cache |-> cache]
    ELSE LET p   == h[cl].parent
             pk  == IF p # 0 THEN computeKey(h, cache, p)
                    ELSE [key |-> "", cache |-> cache]
             k1  == IF p # 0 /\ h[p].vt = "list" /\ h[h[p].vl[1]].listDash
                    THEN pk.key \o "." \o ToStr(ListIndex(h, h[p].vl, cl, 1, -1))
                    ELSE pk.key
             k   == IF h[cl].hasKey THEN k1 \o "." \o h[cl].key ELSE k1
         IN  [key |-> k, cache |-> Remember(pk.cache, cl, k)]

\* the scan of filterListByKeyPrefix: [start, end, cache]
RECURSIVE FilterScan(_, _, _, _, _, _, _)
RECURSIVE FilterAt(_, _, _, _, _, _, _)
FilterScan(h, cache, l, prefix, i, index, start) ==
    IF i > Len(l) THEN [start |-> start, end |-> -1, cache |-> cache]
    ELSE IF ~IsCodeLine(h, l[i]) THEN FilterScan(h, cache, l, prefix, i + 1, index, start)
    ELSE FilterAt(h, l, prefix, i, index, start, computeKey(h, cache, l[i]))

\* the element l[i] of the scan, ck its computeKey
FilterAt(h, l, prefix, i, index, start, ck) ==
    IF /\ Upto(ck.key, Len(prefix)) = prefix
       /\ (Len(ck.key) = Len(prefix) \/ At(ck.key, Len(prefix)) = ".")
    THEN FilterScan(h, ck.cache, l, prefix, i + 1, index + 1,
                    IF start < 0 THEN index ELSE start)
    ELSE IF start >= 0 THEN [start |-> start, end |-> index, cache |-> ck.cache]
    ELSE FilterScan(h, ck.cache, l, prefix, i + 1, index + 1, start)

\* "return l[start:end]" or None for the scan result f
FilterRun(l, f) ==
    [none  |-> f.start < 0,
     run   |-> IF f.start < 0 THEN <<>>
               ELSE IF f.end < 0 THEN SubSeq(l, f.start + 1, Len(l))
               ELSE SubSeq(l, f.start + 1, f.end),
     cache |-> f.cache]

\* [none, run, cache]: none stands for the None result
filterListByKeyPrefix(h, cache, l, prefix) ==
    FilterRun(l, FilterScan(h, cache, l, prefix, 1, 0, -1))

\* What get returns or raises: kind is "line" (a CodeLine, id), "run" (the list
\* filterListByKeyPrefix returned), "KeyError" or "IndexError".
GetResult(kind, id, run, cache) == [kind |-> kind, id |-> id, run |-> run, cache |-> cache]

\* "if l == None: raise KeyError / return l" for the filtered list f
GetRun(f) ==
    IF f.none THEN GetResult("KeyError", 0, <<>>, f.cache)
    ELSE GetResult("run", 0, f.run, f.cache)

RECURSIVE GetIn(_, _, _, _, _)
RECURSIVE GetAt(_, _, _, _, _)
GetIn(h, cache, key, l, i) ==
    IF i > Len(l) THEN GetResult("KeyError", 0, <<>>, cache)
    ELSE IF ~IsCodeLine(h, l[i]) THEN GetIn(h, cache, key, l, i + 1)
    ELSE GetAt(h, key, l, i, computeKey(h, cache, l[i]))

\* the element l[i] of get's loop, ck its computeKey
GetAt(h, key, l, i, ck) ==
    IF ck.key = key THEN GetResult("line", l[i], <<>>, ck.cache)
    ELSE IF /\ Upto(key, Len(ck.key)) = ck.key
            /\ At(key, Len(ck.key)) = "."
            /\ h[l[i]].vt = "list"
    THEN GetIn(h, ck.cache, key, h[l[i]].vl, 1)
    ELSE IF Len(ck.key) > Len(key) /\ Upto(ck.key, Len(key)) = key
    THEN GetRun(filterListByKeyPrefix(h, ck.cache, l, key))
    ELSE GetIn(h, ck.cache, key, l, i + 1)

\* d.get(key) for the document with root list content
get(h, cache, content, key) ==
    IF key = "" THEN GetResult("IndexError", 0, <<>>, cache)
    ELSE GetIn(h, cache, IF At(key, 0) = "." THEN key ELSE "." \o key, content, 1)

(***************************************************************************)
(* Document.getKeys: state [heap, cache, res, fault], res the dict         *)
(* yaml path -> line.  A later entry for a path replaces an earlier one.   *)
(***************************************************************************)
Put(res, k, e) == (k :> e) @@ res

\* "res[self.computeKey(e)] = e" into the dict res, ck the computeKey of e
PutKey(st, res, e, ck) == [st EXCEPT !.cache = ck.cache, !.res = Put(res, ck.key, e)]

\* [MERGE SUPER]: the annotation is removed, no subkeys
KeysSuper(st, e, c, ck) ==
    [PutKey(st, st.res, e, ck) EXCEPT !.heap[e].comment = Strip(From(c, 13))]

\* "res[ekey[:ekey.rfind(".")]] = e"
SuperListPut(st, e, ck) ==
    [st EXCEPT !.cache = ck.cache,
               !.res = Put(@, Upto(ck.key, RFind(ck.key, ".")), e)]

\* [MERGE SUPER LIST] on the beginning of a list element mapping
KeysSuperList(st, e, c) ==
    IF /\ Upto(c, 12) = "[MERGE SUPER"
       /\ Slice(c, 12, 18) = " LIST]"
       /\ st.heap[e].listDash
    THEN SuperListPut(st, e, computeKey(st.heap, st.cache, e))
    ELSE st

RECURSIVE getKeysIn(_, _, _)
RECURSIVE KeysSub(_, _)
RECURSIVE KeysAt(_, _, _)

\* a list value: the sub-keys tmp join the dict, or e itself when there are none
KeysMerge(st1, e, tmp) ==
    IF tmp.fault # "" THEN tmp
    ELSE IF DOMAIN tmp.res # {} THEN [tmp EXCEPT !.res = tmp.res @@ st1.res]
    ELSE PutKey(tmp, st1.res, e, computeKey(tmp.heap, tmp.cache, e))

\* "if isinstance(e.value, list) ... else res[self.computeKey(e)] = e"
KeysSub(st1, e) ==
    IF st1.heap[e].vt # "list"
    THEN PutKey(st1, st1.res, e, computeKey(st1.heap, st1.cache, e))
    ELSE KeysMerge(st1, e, getKeysIn([st1 EXCEPT !.res = <<>>], st1.heap[e].vl, 1))

\* the CodeLine e with a key, c its comment
KeysAt(st, e, c) ==
    IF Upto(c, 12) = "[MERGE SUPER" /\ Len(c) <= 12
    THEN [st EXCEPT !.fault = "IndexError"]
    ELSE IF Upto(c, 12) = "[MERGE SUPER" /\ At(c, 12) = "]"
    THEN KeysSuper(st, e, c, computeKey(st.heap, st.cache, e))
    ELSE KeysSub(KeysSuperList(st, e, c), e)

getKeysIn(st, l, i) ==
    IF i > Len(l) \/ st.fault # "" THEN st
    ELSE IF ~IsCodeLine(st.heap, l[i]) \/ ~st.heap[l[i]].hasKey
    THEN getKeysIn(st, l, i + 1)
    ELSE getKeysIn(KeysAt(st, l[i], st.heap[l[i]].comment), l, i + 1)

\* d.getKeys(): [heap, cache, res, fault]
getKeys(h, cache, content) ==
    getKeysIn([heap |-> h, cache |-> cache, res |-> <<>>, fault |-> ""], content, 1)

(***************************************************************************)
(* CodeLine.isParent, Document.link                                        *)
(***************************************************************************)
RECURSIVE NextCode(_, _)
NextCode(h, cl) == IF cl = 0 \/ IsCodeLine(h, cl) THEN cl ELSE NextCode(h, h[cl].next)

RECURSIVE HasAncestor(_, _, _)
HasAncestor(h, parent, self) ==
    IF parent = 0 THEN FALSE
    ELSE IF parent = self THEN TRUE
    ELSE HasAncestor(h, h[parent].parent, self)

isParent(h, self, cl) ==
    IF NextCode(h, cl) = 0 THEN FALSE
    ELSE HasAncestor(h, h[NextCode(h, cl)].parent, self)

RECURSIVE link(_, _)
RECURSIVE LinkRest(_, _, _, _)
\* link(c): [last, heap]
link(h, c) ==
    IF h[c].vt = "list" /\ Len(h[c].vl) > 0
    THEN LET first == link([h EXCEPT ![c].next = h[c].vl[1]], h[c].vl[1])
         IN  LinkRest(first.heap, h[c].vl, 2, first.last)
    ELSE [last |-> c, heap |-> h]

\* the loop "for e in c.value[1:]"
LinkRest(h, l, i, old) ==
    IF i > Len(l) THEN [last |-> old, heap |-> h]
    ELSE LET r == link([h EXCEPT ![old].next = l[i]], l[i])
         IN  LinkRest(r.heap, l, i + 1, r.last)

(***************************************************************************)
(* merge(dold, dnew, mergeAnnotations).  The state of a running merge is   *)
(* ms = [heap, oldCache, newCache, warnings, errors, status, fault, log]:  *)
(* status is "run", "fault" (an exception other than the caught KeyError   *)
(* left merge; fault names it) or "hang" (a loop that never ends).         *)
(* warnings and errors hold [line, msg]: a line, or a message (line = 0).  *)
(***************************************************************************)
\* the loop "while comment and comment[:6] == "[MERGE"": [hang, c]
RECURSIVE StripMerge(_)
StripMerge(c) ==
    IF c # "" /\ Upto(c, 6) = "[MERGE"
    THEN LET c1 == Strip(From(c, Find(c, "]") + 1))
         IN  IF c1 = c THEN [hang |-> TRUE, c |-> c] ELSE StripMerge(c1)
    ELSE [hang |-> FALSE, c |-> c]

\* "n.comment = (value + " " + comment).strip()", sm the comment stripped
SetAnnotation(ms, id, value, sm) ==
    IF sm.hang THEN [ms EXCEPT !.status = "hang", !.heap[id].comment = sm.c]
    ELSE [ms EXCEPT !.heap[id].comment = Strip(value \o " " \o sm.c)]

\* the entry key -> value, g what self.get(key) gave
Annotated(ms, key, value, g) ==
    IF g.kind = "KeyError"
    THEN [ms EXCEPT !.newCache = g.cache,
                    !.warnings = Append(@, [line |-> 0,
                        msg |-> "Merge Annotation Warning: key '" \o key
                                \o "' for annotation '" \o value \o "' not found!"])]
    ELSE IF g.kind = "IndexError"
    THEN [ms EXCEPT !.status = "fault", !.fault = "IndexError"]
    ELSE IF g.kind = "run"
    THEN [ms EXCEPT !.newCache = g.cache, !.status = "fault",
                    !.fault = "AttributeError"]
    ELSE SetAnnotation([ms EXCEPT !.newCache = g.cache], g.id, value,
                       StripMerge(Strip(ms.heap[g.id].comment)))

\* one iteration of mergeAnnotate's loop, for the entry key -> value
AnnotateOne(ms, content, key, value) ==
    Annotated(ms, key, value, get(ms.heap, ms.newCache, content, key))

\* a branch test that does not know IGNORE
DirectiveNoIgnore(c) ==
    IF ~(c # "" /\ Upto(c, 6) = "[MERGE") THEN ""
    ELSE IF Slice(c, 7, 12) = "FROM " THEN "FROM"
    ELSE IF Slice(c, 7, 15) = "INSTEAD " THEN "INSTEAD"
    ELSE IF Slice(c, 7, 14) = "PREFIX " THEN "PREFIX"
    ELSE ""

\* which branch of "evaluate merge annotations" the comment c takes
Directive(c) ==
    IF ~(c # "" /\ Upto(c, 6) = "[MERGE") THEN ""
    ELSE IF Slice(c, 7, 14) = "IGNORE]" THEN "IGNORE"
    ELSE IF Slice(c, 7, 12) = "FROM " THEN "FROM"
    ELSE IF Slice(c, 7, 15) = "INSTEAD " THEN "INSTEAD"
    ELSE IF Slice(c, 7, 14) = "PREFIX " THEN "PREFIX"
    ELSE ""

\* position after the directive word, where its argument starts
ArgStart(dir) == IF dir = "FROM" THEN 12 ELSE IF dir = "INSTEAD" THEN 15 ELSE 14

\* an INSTEAD branch that keeps the value of n
SetNoneSkipped(l) == l

\* n.value = None (the "dirty hack" of the INSTEAD branch)
SetNone(l) == [l EXCEPT !.vt = "none", !.vs = "", !.vl = <<>>]

\* the walk "while n.isParent(nnext): nnext = nnext.next": [hang, nnext]
RECURSIVE SkipSpan(_, _, _, _)
SkipSpan(h, n, nnext, seen) ==
    IF ~isParent(h, n, nnext) THEN [hang |-> FALSE, nnext |-> nnext]
    ELSE IF nnext \in seen THEN [hang |-> TRUE, nnext |-> nnext]
    ELSE SkipSpan(h, n, h[nnext].next, seen \cup {nnext})

\* n with the string value of v overtaken, prefix prepended if any
Overtake(l, v, prefix) ==
    [l EXCEPT !.vt = "str", !.vs = IF prefix # "" THEN prefix \o v.vs ELSE v.vs,
              !.vl = <<>>]

\* the except-branch test: TRUE for an ERROR, FALSE for a WARNING
IsError(l) ==
    IF l.vt = "str"
    THEN /\ Len(l.vs) > 1
         /\ (At(l.vs, 0) = "<" \/ Upto(l.vs, 2) = "\"<" \/ Upto(l.vs, 2) = "'<")
    ELSE l.vt = "none" \/ Len(l.vl) = 0

\* the except-branch: mark the line and record it
NotFound(ms, h, n) ==
    IF IsError(h[n])
    THEN [ms EXCEPT !.heap = [h EXCEPT ![n].comment = "[MERGE FAIL] " \o @],
                    !.errors = Append(@, [line |-> n, msg |-> ""])]
    ELSE [ms EXCEPT !.heap = [h EXCEPT ![n].comment = "[MERGE CHECK] " \o @],
                    !.warnings = Append(@, [line |-> n, msg |-> ""])]

\* "dnew.link(n).next = nnext" for what link gave
Relinked(lk, nnext) == [lk.heap EXCEPT ![lk.last].next = nnext]

\* the comment of n without its merge annotations, sm the stripped comment
Cleaned(ms, h1, n, sm) ==
    IF sm.hang
    THEN [ms EXCEPT !.heap = [h1 EXCEPT ![n].comment = sm.c], !.status = "hang"]
    ELSE [ms EXCEPT !.heap = [h1 EXCEPT ![n].comment = sm.c]]

\* "comment = n.comment or v.comment" on the heap h1 with the value overtaken
Overtaken(ms, h1, n, v) ==
    Cleaned(ms, h1, n,
            StripMerge(IF h1[n].comment = "" THEN h1[v].comment ELSE h1[n].comment))

\* the value of v is overtaken; span is what the walk to nnext gave
FoundSpan(ms, h, n, v, prefix, span) ==
    IF span.hang THEN [ms EXCEPT !.heap = h, !.status = "hang"]
    ELSE IF h[v].vt = "none"
    THEN [ms EXCEPT !.heap = h, !.status = "fault", !.fault = "TypeError"]
    ELSE IF h[v].vt = "str"
    THEN Overtaken(ms, [h EXCEPT ![n] = [Overtake(h[n], h[v], prefix)
                                         EXCEPT !.next = span.nnext]], n, v)
    ELSE Overtaken(ms, Relinked(link([h EXCEPT ![n].vt = "list", ![n].vs = "",
                                               ![n].vl = h[v].vl], n),
                                span.nnext), n, v)

\* lines 611-633: the old line v was found for n
Found(ms, h, n, v, prefix) ==
    FoundSpan(ms, h, n, v, prefix,
              IF h[n].vt = "list" /\ Len(h[n].vl) > 0
              THEN SkipSpan(h, n, h[n].next, {})
              ELSE [hang |-> FALSE, nnext |-> h[n].next])

\* what the log keeps of one visit of a leaf
LogRec(leafKey, n, line0, dir, lookup, res, v) ==
    [key |-> leafKey, n |-> n, line0 |-> line0, dir |-> dir, lookup |-> lookup,
     res |-> res, v |-> v]

\* "n.key = v.key" of the INSTEAD branch, then the try block's else or except
Branch(ms2, h1, n, dir, prefix, g) ==
    IF g.kind = "KeyError" THEN NotFound(ms2, h1, n)
    ELSE IF g.kind = "IndexError"
    THEN [ms2 EXCEPT !.heap = h1, !.status = "fault", !.fault = "IndexError"]
    ELSE IF g.kind = "run"
    THEN [ms2 EXCEPT !.heap = h1, !.status = "fault", !.fault = "AttributeError"]
    ELSE Found(ms2,
               IF dir = "INSTEAD"
               THEN [h1 EXCEPT ![n].hasKey = h1[g.id].hasKey, ![n].key = h1[g.id].key]
               ELSE h1,
               n, g.id, prefix)

\* g is what dold.get(key) gave
Looked(ms, h1, leafKey, n, dir, key, prefix, g) ==
    Branch([ms EXCEPT !.log = Append(@, LogRec(leafKey, n, ms.heap[n], dir, key,
                                               g.kind, g.id)),
                      !.oldCache = g.cache],
           h1, n, dir, prefix, g)

\* "v = dold.get(key)" on the heap h1 the annotation's branch left
Lookup(ms, h1, oldContent, leafKey, n, dir, key, prefix) ==
    Looked(ms, h1, leafKey, n, dir, key, prefix, get(h1, ms.oldCache, oldContent, key))

\* the FROM, INSTEAD and PREFIX branches; pos is comment.find("]")
MergeArg(ms, oldContent, leafKey, n, c0, dir, pos) ==
    Lookup(ms,
           [ms.heap EXCEPT ![n] = [(IF dir = "INSTEAD" THEN SetNone(@) ELSE @)
                                   EXCEPT !.comment = Strip(From(c0, pos + 1))]],
           oldContent, leafKey, n, dir,
           IF dir = "PREFIX" THEN leafKey ELSE Slice(c0, ArgStart(dir), pos),
           IF dir = "PREFIX" THEN Slice(c0, ArgStart(dir), pos) ELSE "")

\* "evaluate merge annotations" for the comment c0, dir the branch it takes
MergeDir(ms, oldContent, leafKey, n, c0, dir) ==
    IF dir = "IGNORE"
    THEN [ms EXCEPT !.log = Append(@, LogRec(leafKey, n, ms.heap[n], dir, "", "skip", 0)),
                    !.heap[n].comment = Strip(From(c0, 14))]
    ELSE IF dir = ""
    THEN Lookup(ms, ms.heap, oldContent, leafKey, n, dir, leafKey, "")
    ELSE MergeArg(ms, oldContent, leafKey, n, c0, dir, Find(c0, "]"))

\* One iteration of "for key, n in dnew.getKeys().iteritems()".  The log gets
\* the leaf's path, its line as it was, the branch taken, the path looked up
\* in dold and what the lookup gave.
MergeLeaf(ms, oldContent, leafKey, n) ==
    MergeDir(ms, oldContent, leafKey, n, ms.heap[n].comment, Directive(ms.heap[n].comment))

\* the state merge starts in
MergeStart(h) ==
    [heap |-> h, oldCache |-> <<>>, newCache |-> <<>>, warnings |-> <<>>,
     errors |-> <<>>, status |-> "run", fault |-> "", log |-> <<>>]

\* mergeAnnotate(d), iterating d in the order given
RECURSIVE mergeAnnotate(_, _, _, _, _)
mergeAnnotate(ms, content, d, order, i) ==
    IF i > Len(order) \/ ms.status # "run" THEN ms
    ELSE mergeAnnotate(AnnotateOne(ms, content, order[i], d[order[i]]),
                       content, d, order, i + 1)

\* the loop of merge over the leaves, iterating them in the order given
RECURSIVE MergeLoop(_, _, _, _, _)
MergeLoop(ms, oldContent, res, order, i) ==
    IF i > Len(order) \/ ms.status # "run" THEN ms
    ELSE MergeLoop(MergeLeaf(ms, oldContent, order[i], res[order[i]]),
                   oldContent, res, order, i + 1)

\* getKeys as merge calls it: the leaves, and the merge state after the call
KeysOf(ms, newContent) ==
    LET r == getKeys(ms.heap, ms.newCache, newContent)
    IN  [res |-> r.res,
         ms  |-> IF r.fault # ""
                 THEN [ms EXCEPT !.status = "fault", !.fault = r.fault]
                 ELSE [ms EXCEPT !.heap = r.heap, !.newCache = r.cache]]

(***************************************************************************)
(* Inputs.                                                                 *)
(***************************************************************************)
RECURSIVE Join(_, _)
\* "\n".join(lines)
Join(lines, i) ==
    IF i > Len(lines) THEN ""
    ELSE IF i = Len(lines) THEN lines[i]
    ELSE lines[i] \o "\n" \o Join(lines, i + 1)

\* most lines of a text handed to the parser
MaxLines == 3

\* most blocks of a new (target) document
MaxBlocks == 2

DocLines ==
    {"", "# c", "a: 1 # n", "a:", "  b:", "    c: 1", "  - x", "- k: v", "  bj: w"}

Texts == {Join(ls, 1) : ls \in UNION {[1..n -> DocLines] : n \in 1..MaxLines}}

\* old documents: one that holds the paths the new documents ask for, one
\* that holds none of them
OldFull == "r: 3\nt: wait\nl:\n  - 1\n  - 2\nq: go # sn\na:\n- name: foo\n  v: 1"
OldBare == "b: 1"
OldTexts == {OldFull, OldBare}

\* blocks of the new document: each is one leaf (or one annotated list)
NewBlocks ==
    {"r: <count>",
     "t: 30 # [MERGE PREFIX max-]",
     "t: 30 # [MERGE FROM q] [MERGE PREFIX max-]",
     "i: <repo> # [MERGE IGNORE]",
     "l: # [MERGE IGNORE] keep\n  - 9",
     "x: <y> # [MERGE FROM l]",
     "m: <",
     "l:\n  - 9\n  - 8",
     "d: 5 # [MERGE INSTEAD zz]",
     "h: # [MERGE INSTEAD zz]",
     "p: # [MERGE INSTEAD l]\n  - u",
     "e: <z> # [MERGE INSTEAD t]",
     "a:\n- name: <x> # [MERGE SUPER LIST]",
     "r: 1 # [MERGE PREFIX x"}

NewTexts == {Join(bs, 1) : bs \in UNION {[1..n -> NewBlocks] : n \in 1..MaxBlocks}}

\* mergeAnnotations with two entries, one of a path no new document has
Overrides == ("r" :> "[MERGE IGNORE]") @@ ("zz" :> "[MERGE FROM q]")

\* what merge is called with; the overrides come with the first old document
Inputs ==
    {[src |-> s, tgt |-> t, ann |-> <<>>] : s \in OldTexts, t \in NewTexts}
    \cup {[src |-> OldFull, tgt |-> t, ann |-> Overrides] : t \in NewTexts}

(***************************************************************************)
(* Specification SpecDoc: a Document is built from a text, its lines'      *)
(* yaml paths are computed in any order, and it is serialized.             *)
(***************************************************************************)
NoMerge ==
    /\ inp = [src |-> "", tgt |-> "", ann |-> <<>>]
    /\ dold = [content |-> <<>>, keyCache |-> <<>>]
    /\ dnew = [content |-> <<>>, keyCache |-> <<>>]
    /\ annTodo = {}
    /\ leaves = <<>>
    /\ todo = {}
    /\ warnings = <<>>
    /\ errors = <<>>
    /\ fault = ""
    /\ log = <<>>
    /\ heap0 = <<>>

NoDoc ==
    /\ txt = ""
    /\ doc = [fault |-> "", content |-> <<>>]
    /\ keyCache = <<>>
    /\ lastKey = [cl |-> 0, key |-> ""]
    /\ lastGet = [key |-> "", kind |-> "", id |-> 0, run |-> <<>>]

mergeVars == <<inp, dold, dnew, annTodo, leaves, todo, warnings, errors, fault, log, heap0>>
docVars == <<txt, doc, keyCache, lastKey, lastGet>>

InitDoc ==
    /\ txt \in Texts
    /\ doc = [fault |-> "", content |-> <<>>]
    /\ out = [done |-> FALSE, cyc |-> FALSE, s |-> ""]
    /\ heap = <<>>
    /\ keyCache = <<>>
    /\ lastKey = [cl |-> 0, key |-> ""]
    /\ lastGet = [key |-> "", kind |-> "", id |-> 0, run |-> <<>>]
    /\ pc = "text"
    /\ NoMerge

\* Document(txt)
Construct ==
    /\ pc = "text"
    /\ LET d == Document(<<>>, txt)
       IN  /\ heap' = d.heap
           /\ doc' = [fault |-> d.fault, content |-> d.content]
           /\ pc' = IF d.fault # "" THEN "fault" ELSE "doc"
    /\ UNCHANGED <<txt, out, keyCache, lastKey, lastGet, mergeVars>>

\* doc.computeKey(cl)
ComputeKeyCall(cl) ==
    /\ pc = "doc"
    /\ cl \in 1..Len(heap)
    /\ IsCodeLine(heap, cl)
    /\ LET r == computeKey(heap, keyCache, cl)
       IN  /\ keyCache' = r.cache
           /\ lastKey' = [cl |-> cl, key |-> r.key]
    /\ UNCHANGED <<txt, doc, out, heap, lastGet, pc, mergeVars>>

\* doc.get(key), key the yaml path of the line cl, or (cut) that path without
\* its last part; the one lookup made on the document
GetCall(cl, cut) ==
    /\ pc = "doc"
    /\ lastGet.kind = ""
    /\ cl \in 1..Len(heap)
    /\ IsCodeLine(heap, cl)
    /\ LET k   == computeKey(heap, <<>>, cl).key
           key == IF cut THEN Upto(k, RFind(k, ".")) ELSE k
           g   == get(heap, keyCache, doc.content, key)
       IN  /\ keyCache' = g.cache
           /\ lastGet' = [key |-> key, kind |-> g.kind, id |-> g.id, run |-> g.run]
    /\ UNCHANGED <<txt, doc, out, heap, lastKey, pc, mergeVars>>

\* str(doc)
Str ==
    /\ pc = "doc"
    /\ ~out.done
    /\ LET o == DocStr(heap, doc.content)
       IN  out' = [done |-> TRUE, cyc |-> o.cyc, s |-> o.s]
    /\ UNCHANGED <<txt, doc, heap, keyCache, lastKey, lastGet, pc, mergeVars>>

NextDoc ==
    \/ Construct
    \/ \E cl \in 1..Len(heap) : ComputeKeyCall(cl)
    \/ \E cl \in 1..Len(heap), cut \in BOOLEAN : GetCall(cl, cut)
    \/ Str

SpecDoc == InitDoc /\ [][NextDoc]_vars

(***************************************************************************)
(* Specification Spec: merge(dold, dnew, mergeAnnotations) on the two      *)
(* parsed documents, as the main part calls it, then str(dnew).  The two   *)
(* dicts are iterated in any order.                                        *)
(***************************************************************************)
Init ==
    /\ inp \in Inputs
    /\ LET d1 == Document(<<>>, inp.src)
           d2 == Document(d1.heap, inp.tgt)
       IN  /\ d1.fault = "" /\ d2.fault = ""
           /\ heap = d2.heap
           /\ heap0 = d2.heap
           /\ dold = [content |-> d1.content, keyCache |-> <<>>]
           /\ dnew = [content |-> d2.content, keyCache |-> <<>>]
    /\ pc = "annotate"
    /\ annTodo = DOMAIN inp.ann
    /\ leaves = <<>>
    /\ todo = {}
    /\ warnings = <<>>
    /\ errors = <<>>
    /\ fault = ""
    /\ log = <<>>
    /\ out = [done |-> FALSE, cyc |-> FALSE, s |-> ""]
    /\ NoDoc

\* the merge state held by the variables
Cur ==
    [heap |-> heap, oldCache |-> dold.keyCache, newCache |-> dnew.keyCache,
     warnings |-> warnings, errors |-> errors, status |-> "run", fault |-> "",
     log |-> log]

\* the variables take merge state ms; merge goes on at position at
Becomes(ms, at) ==
    /\ heap' = ms.heap
    /\ dold' = [dold EXCEPT !.keyCache = ms.oldCache]
    /\ dnew' = [dnew EXCEPT !.keyCache = ms.newCache]
    /\ warnings' = ms.warnings
    /\ errors' = ms.errors
    /\ fault' = ms.fault
    /\ log' = ms.log
    /\ pc' = IF ms.status = "run" THEN at ELSE ms.status

\* one iteration of the loop of dnew.mergeAnnotate(mergeAnnotations)
Annotate(k) ==
    /\ pc = "annotate"
    /\ k \in annTodo
    /\ annTodo' = annTodo \ {k}
    /\ Becomes(AnnotateOne(Cur, dnew.content, k, inp.ann[k]), "annotate")
    /\ UNCHANGED <<inp, leaves, todo, out, heap0, docVars>>

\* dnew.getKeys()
Keys ==
    /\ pc = "annotate"
    /\ annTodo = {}
    /\ LET k == KeysOf(Cur, dnew.content)
       IN  /\ leaves' = k.res
           /\ todo' = DOMAIN k.res
           /\ Becomes(k.ms, "loop")
    /\ UNCHANGED <<inp, annTodo, out, heap0, docVars>>

\* one iteration of the loop over the leaves
Leaf(k) ==
    /\ pc = "loop"
    /\ k \in todo
    /\ todo' = todo \ {k}
    /\ Becomes(MergeLeaf(Cur, dold.content, k, leaves[k]), "loop")
    /\ UNCHANGED <<inp, annTodo, leaves, out, heap0, docVars>>

\* merge returns (warnings, errors) and the result str(dnew) is written
Return ==
    /\ pc = "loop"
    /\ todo = {}
    /\ pc' = "done"
    /\ LET o == DocStr(heap, dnew.content)
       IN  out' = [done |-> TRUE, cyc |-> o.cyc, s |-> o.s]
    /\ UNCHANGED <<heap, inp, dold, dnew, annTodo, leaves, todo, warnings, errors,
                   fault, log, heap0, docVars>>

Next ==
    \/ \E k \in annTodo : Annotate(k)
    \/ Keys
    \/ \E k \in todo : Leaf(k)
    \/ Return

Spec == Init /\ [][Next]_vars

(***************************************************************************)
(* Properties.                                                             *)
(***************************************************************************)
\* line n is recorded in the list (of warnings or of errors)
Recorded(list, n) == \E j \in 1..Len(list) : list[j].line = n

\* the lines of the old document: it is parsed first, the new document after it
OldLines == 1..(dnew.content[1] - 1)

\* every 'key:' line of the parsed text has nested children
NestedHaveChildren ==
    \A i \in 1..Len(heap) :
        (IsCodeLine(heap, i) /\ heap[i].vt = "list") => Len(heap[i].vl) > 0

\* C1: for a text without tab characters, built of blank lines, comment
\* lines, 'key: value' lines, 'key:' lines with nested children, list items
\* and trailing comments, str(Document(text)) is the text itself.
C1_RoundTrip ==
    (pc = "doc" /\ out.done /\ Find(txt, "\t") < 0 /\ NestedHaveChildren)
        => (~out.cyc /\ out.s = txt)

\* What does hold of the serializer: the round trip is exact when the text
\* has no 'key:' line either.
C1_RoundTripFlat ==
    (pc = "doc" /\ out.done /\ Find(txt, "\t") < 0
        /\ \A i \in 1..Len(heap) : IsCodeLine(heap, i) => heap[i].vt = "str")
        => (~out.cyc /\ out.s = txt)

\* C2: when merge has returned, the old document serializes to the text it had
\* before, and no line of it has another key or value than before.
C2_SourceUnchanged ==
    pc = "done" =>
        /\ DocStr(heap, dold.content) = DocStr(heap0, dold.content)
        /\ \A i \in OldLines :
               /\ heap[i].hasKey = heap0[i].hasKey
               /\ heap[i].key = heap0[i].key
               /\ heap[i].vt = heap0[i].vt
               /\ heap[i].vs = heap0[i].vs
               /\ heap[i].vl = heap0[i].vl

\* the entries of a dict in one fixed order
RECURSIVE InOrder(_, _)
InOrder(res, S) ==
    IF S = {} THEN <<>>
    ELSE LET k == CHOOSE k \in S : \A j \in S :
                      \/ res[k] < res[j]
                      \/ res[k] = res[j] /\ Len(k) <= Len(j)
         IN  <<k>> \o InOrder(res, S \ {k})

RECURSIVE SomeOrder(_)
SomeOrder(S) ==
    IF S = {} THEN <<>> ELSE LET k == CHOOSE k \in S : TRUE IN <<k>> \o SomeOrder(S \ {k})

\* the merge of the same input that visits the leaves in the fixed order
FixedOrderMerge ==
    LET ms1 == mergeAnnotate(MergeStart(heap0), dnew.content, inp.ann,
                             SomeOrder(DOMAIN inp.ann), 1)
        k   == KeysOf(ms1, dnew.content)
    IN  MergeLoop(k.ms, dold.content, k.res, InOrder(k.res, DOMAIN k.res), 1)

Entries(list) == {list[j] : j \in 1..Len(list)}

\* C3: whatever the order in which the leaves are visited, merge gives the same
\* merged document and the same sets of warnings and of errors: they are those
\* of the merge that visits the leaves in one fixed order.
C3_OrderIndependent ==
    pc = "done" =>
        LET ref == FixedOrderMerge
            o   == DocStr(ref.heap, dnew.content)
        IN  /\ ref.status = "run"
            /\ o.cyc = out.cyc
            /\ o.s = out.s
            /\ Entries(ref.warnings) = Entries(warnings)
            /\ Entries(ref.errors) = Entries(errors)

\* the first line of a list element mapping annotated [MERGE SUPER LIST]
SuperListHead(e) ==
    /\ e \notin OldLines
    /\ IsCodeLine(heap0, e)
    /\ heap0[e].listDash
    /\ heap0[e].parent # 0
    /\ Upto(heap0[e].comment, 18) = "[MERGE SUPER LIST]"

\* C4: a list whose element mapping starts with a line annotated
\* [MERGE SUPER LIST] is one leaf at the list's yaml path: the path is among
\* the leaves and no path below it is; and when merge has returned and the
\* old document has a list at the path, the list has that list's elements.
C4_SuperListOneLeaf ==
    \A e \in 1..Len(heap0) :
        SuperListHead(e) =>
            LET a == computeKey(heap0, <<>>, heap0[e].parent).key
                g == get(heap0, <<>>, dold.content, a)
            IN  /\ pc \in {"loop", "done"} =>
                       /\ a \in DOMAIN leaves
                       /\ \A k \in DOMAIN leaves :
                              ~(Len(k) > Len(a) /\ Upto(k, Len(a) + 1) = a \o ".")
                /\ (pc = "done" /\ g.kind = "line" /\ heap0[g.id].vt = "list") =>
                       heap[heap0[e].parent].vl = heap0[g.id].vl

\* the path Q of a comment "[MERGE INSTEAD Q]..."
InsteadPath(c) == Slice(c, 15, Find(c, "]"))

\* the visit log[i] is of a leaf annotated [MERGE INSTEAD Q], Q a path the
\* old document does not have
InsteadMissing(i) ==
    LET c == log[i].line0.comment
    IN  /\ Upto(c, 15) = "[MERGE INSTEAD "
        /\ Find(c, "]") > 15
        /\ get(heap0, <<>>, dold.content, InsteadPath(c)).kind = "KeyError"

\* C5: a leaf annotated [MERGE INSTEAD Q], Q a path the old document does not
\* have, is recorded as an error, is not recorded as a warning and is marked
\* [MERGE FAIL], whatever its value was.
C5_InsteadMissingIsError ==
    \A i \in 1..Len(log) :
        InsteadMissing(i) =>
            /\ Recorded(errors, log[i].n)
            /\ ~Recorded(warnings, log[i].n)
            /\ Upto(heap[log[i].n].comment, 12) = "[MERGE FAIL]"

\* such a leaf had a value that is neither a placeholder nor empty
C5_Witness ==
    /\ pc = "done"
    /\ \E i \in 1..Len(log) :
           /\ InsteadMissing(i)
           /\ \/ log[i].line0.vt = "str" /\ log[i].line0.vs = "5"
              \/ log[i].line0.vt = "list" /\ Len(log[i].line0.vl) > 0
           /\ Recorded(errors, log[i].n)

\* the value is a placeholder (a scalar that starts with <, "< or '<) or empty
PlaceholderOrEmpty(l) ==
    \/ l.vt = "str" /\ (Upto(l.vs, 1) = "<" \/ Upto(l.vs, 2) \in {"\"<", "'<"})
    \/ l.vt = "none"
    \/ l.vt = "list" /\ l.vl = <<>>

\* C6: a leaf whose path is looked up (its own, or Q of [MERGE FROM Q]) and not
\* found in the old document is an error marked [MERGE FAIL] when its value
\* is a placeholder or empty, and a warning marked [MERGE CHECK] when not.
C6_NotFoundClass ==
    \A i \in 1..Len(log) :
        (log[i].res = "KeyError" /\ log[i].dir # "INSTEAD") =>
            IF PlaceholderOrEmpty(log[i].line0)
            THEN /\ Recorded(errors, log[i].n)
                 /\ ~Recorded(warnings, log[i].n)
                 /\ Upto(heap[log[i].n].comment, 12) = "[MERGE FAIL]"
            ELSE /\ Recorded(warnings, log[i].n)
                 /\ ~Recorded(errors, log[i].n)
                 /\ Upto(heap[log[i].n].comment, 13) = "[MERGE CHECK]"

\* the text of the [MERGE PREFIX text] among the annotations that c starts with
RECURSIVE PrefixText(_)
PrefixText(c) ==
    IF Upto(c, 14) = "[MERGE PREFIX " /\ Find(c, "]") >= 0
    THEN Slice(c, 14, Find(c, "]"))
    ELSE IF Upto(c, 6) = "[MERGE" /\ Find(c, "]") >= 0
    THEN PrefixText(Strip(From(c, Find(c, "]") + 1)))
    ELSE ""

\* the path looked up for a leaf at path key with comment c
LookupPath(key, c) ==
    IF Upto(c, 12) = "[MERGE FROM " /\ Find(c, "]") >= 0
    THEN Slice(c, 12, Find(c, "]")) ELSE key

\* C7: a scalar leaf whose path (its own, or Q of [MERGE FROM Q]) is that of a
\* scalar line of the old document gets the value prefix + s, s that line's
\* value and prefix the text of the leaf's [MERGE PREFIX text] annotation (empty
\* without one); its key and its successor stay and it is recorded nowhere.
C7_ScalarSubstitution ==
    pc \in {"loop", "done"} =>
        \A i \in 1..Len(log) :
            LET r == log[i]
                g == get(heap0, <<>>, dold.content, LookupPath(r.key, r.line0.comment))
            IN  (/\ r.line0.vt = "str"
                 /\ Upto(r.line0.comment, 14) # "[MERGE IGNORE]"
                 /\ Upto(r.line0.comment, 15) # "[MERGE INSTEAD "
                 /\ g.kind = "line"
                 /\ heap0[g.id].vt = "str")
                => /\ heap[r.n].vt = "str"
                   /\ heap[r.n].vs = PrefixText(r.line0.comment) \o heap0[g.id].vs
                   /\ heap[r.n].key = r.line0.key
                   /\ heap[r.n].next = r.line0.next
                   /\ ~Recorded(warnings, r.n)
                   /\ ~Recorded(errors, r.n)

\* C8: a leaf whose comment starts with [MERGE IGNORE] is not looked up; its
\* key, its value, its children and its successor stay as they were, the
\* annotation is taken from its comment, and it is recorded neither as a
\* warning nor as an error.
C8_IgnoreUntouched ==
    \A i \in 1..Len(log) :
        LET r == log[i]
        IN  Upto(r.line0.comment, 14) = "[MERGE IGNORE]" =>
                /\ r.res = "skip"
                /\ heap[r.n] = [r.line0 EXCEPT !.comment = Strip(From(@, 14))]
                /\ \A j \in 1..Len(r.line0.vl) : heap[r.line0.vl[j]] = heap0[r.line0.vl[j]]
                /\ ~Recorded(warnings, r.n)
                /\ ~Recorded(errors, r.n)

\* the ignored leaf has a placeholder value and a path the old document lacks
C8_Witness ==
    /\ pc = "done"
    /\ \E i \in 1..Len(log) :
           /\ Upto(log[i].line0.comment, 14) = "[MERGE IGNORE]"
           /\ log[i].line0.vs = "<repo>"
           /\ get(heap0, <<>>, dold.content, log[i].key).kind = "KeyError"
           /\ heap[log[i].n].comment = ""

\* C9: the yaml path computeKey gives for a line, and the one the cache holds
\* for it, is the path computed for the line with nothing cached: it does not
\* depend on which other paths were computed before, or in which order.
C9_KeyStable ==
    pc = "doc" =>
        /\ \A cl \in DOMAIN keyCache : keyCache[cl] = computeKey(heap, <<>>, cl).key
        /\ lastKey.cl # 0 => lastKey.key = computeKey(heap, <<>>, lastKey.cl).key

\* a list element's path is asked for with the path of its list in the cache,
\* after the path of another element
C9_Witness ==
    /\ pc = "doc"
    /\ lastKey.cl # 0
    /\ heap[lastKey.cl].listDash
    /\ heap[lastKey.cl].parent \in DOMAIN keyCache
    /\ Cardinality(DOMAIN keyCache) = 3

\* C10: when merge has returned, the chain of successors from the first line
\* of the new document ends, and every top-level line of the document is on it.
C10_ChainIntact ==
    pc = "done" =>
        LET c == Chain(heap, dnew.content[1], {})
        IN  /\ ~c.cyc
            /\ \A i \in 1..Len(dnew.content) :
                   \E j \in 1..Len(c.ids) : c.ids[j] = dnew.content[i]

\* the lines below line n on heap h: its children, their children, ...
RECURSIVE Descendants(_, _)
Descendants(h, n) ==
    IF h[n].cls # "CodeLine" \/ h[n].vt # "list" THEN {}
    ELSE UNION {{h[n].vl[j]} \cup Descendants(h, h[n].vl[j]) : j \in 1..Len(h[n].vl)}

\* the first line after n on the successor chain of h that is not below n
RECURSIVE AfterSpan(_, _, _)
AfterSpan(h, n, i) ==
    IF i = 0 THEN 0
    ELSE IF i \in Descendants(h, n) THEN AfterSpan(h, n, h[i].next)
    ELSE i

\* the last line of the span of n on heap h: n, or the last line below it
RECURSIVE LastOfSpan(_, _)
LastOfSpan(h, n) ==
    IF h[n].vt = "list" /\ Len(h[n].vl) > 0
    THEN LastOfSpan(h, h[n].vl[Len(h[n].vl)])
    ELSE n

OnChain(n) ==
    LET c == Chain(heap, dnew.content[1], {})
    IN  \E j \in 1..Len(c.ids) : c.ids[j] = n

\* the visit log[i] found a line of the old document and its annotation is
\* none, FROM or INSTEAD
Substituted(i) ==
    /\ log[i].res = "line"
    /\ Upto(log[i].line0.comment, 6) = "[MERGE" =>
           \/ Upto(log[i].line0.comment, 12) = "[MERGE FROM "
           \/ Upto(log[i].line0.comment, 15) = "[MERGE INSTEAD "

\* C11: when a leaf has been given the value of a line found in the old
\* document, no line that was below the leaf before the merge is on the new
\* document's successor chain, and the last line of the leaf's new span is
\* followed by the line that followed its old span.
C11_SpanReplaced ==
    pc \in {"loop", "done"} =>
        \A i \in 1..Len(log) :
            Substituted(i) =>
                /\ \A d \in Descendants(heap0, log[i].n) : ~OnChain(d)
                /\ heap[LastOfSpan(heap, log[i].n)].next
                       = AfterSpan(heap0, log[i].n, heap0[log[i].n].next)

\* What does hold: the same, for the leaves that do not carry INSTEAD, in the
\* merges where no two leaves take the same list of the old document.
C11_SpanReplacedPlain ==
    (pc \in {"loop", "done"}
        /\ \A i, j \in 1..Len(log) : (i # j /\ log[i].res = "line") => log[i].v # log[j].v)
    => \A i \in 1..Len(log) :
           (Substituted(i) /\ Upto(log[i].line0.comment, 15) # "[MERGE INSTEAD ")
           => /\ \A d \in Descendants(heap0, log[i].n) : ~OnChain(d)
              /\ heap[LastOfSpan(heap, log[i].n)].next
                     = AfterSpan(heap0, log[i].n, heap0[log[i].n].next)

\* the lines of the parsed document whose yaml path is key
Holders(key) ==
    {cl \in 1..Len(heap) : IsCodeLine(heap, cl) /\ computeKey(heap, <<>>, cl).key = key}

\* C12: get of a yaml path that is the path of exactly one line of the
\* document gives that line, whatever lines come before it; get gives a list
\* of lines only for a path that no single line has.
C12_ExactMatch ==
    (pc = "doc" /\ lastGet.kind # "" /\ lastGet.key # "") =>
        /\ Cardinality(Holders(lastGet.key)) = 1 =>
               (lastGet.kind = "line" /\ lastGet.id \in Holders(lastGet.key))
        /\ lastGet.kind = "run" => Holders(lastGet.key) = {}

\* What does hold: the same, when no two lines have the same path and no
\* line's path continues the looked-up path with something else than a dot.
C12_ExactMatchNoPrefix ==
    (pc = "doc" /\ lastGet.kind # "" /\ lastGet.key # ""
        /\ \A c1, c2 \in 1..Len(heap) :
               (IsCodeLine(heap, c1) /\ IsCodeLine(heap, c2) /\ c1 # c2)
               => computeKey(heap, <<>>, c1).key # computeKey(heap, <<>>, c2).key
        /\ \A cl \in 1..Len(heap) : IsCodeLine(heap, cl) =>
               LET k == computeKey(heap, <<>>, cl).key
               IN  ~(/\ Len(k) > Len(lastGet.key)
                     /\ Upto(k, Len(lastGet.key)) = lastGet.key
                     /\ At(k, Len(lastGet.key)) # "."))
    => /\ Cardinality(Holders(lastGet.key)) = 1 =>
              (lastGet.kind = "line" /\ lastGet.id \in Holders(lastGet.key))
       /\ lastGet.kind = "run" => Holders(lastGet.key) = {}

\* TRUE iff a merge annotation marker opens somewhere in the comment c
HasMarker(c) == \E i \in 0..(Len(c) - 1) : Slice(c, i, i + 6) = "[MERGE"

\* the comment c without the CHECK or FAIL marker the merge put in front
WithoutVerdict(c) ==
    IF Upto(c, 14) = "[MERGE CHECK] " THEN From(c, 14)
    ELSE IF Upto(c, 13) = "[MERGE FAIL] " THEN From(c, 13)
    ELSE c

\* C13: when merge has returned, the comment of every leaf it visited holds
\* no merge annotation marker besides the one CHECK or FAIL marker the merge
\* itself put in front, whether the leaf was substituted, skipped or not found.
C13_AnnotationsStripped ==
    pc = "done" =>
        \A i \in 1..Len(log) : ~HasMarker(WithoutVerdict(heap[log[i].n].comment))

\* What does hold: the leaves whose old line was found end without a marker.
C13_StrippedWhenFound ==
    pc = "done" =>
        \A i \in 1..Len(log) :
            log[i].res = "line" => ~HasMarker(heap[log[i].n].comment)

\* TRUE iff the comment c opens a merge annotation and never closes it
Unclosed(c) == Upto(c, 6) = "[MERGE" /\ Find(c, "]") < 0

\* the scalar lines of the new document, as parsed, with such a comment
UnclosedLeaves ==
    {cl \in 1..Len(heap0) :
        /\ cl \notin OldLines
        /\ IsCodeLine(heap0, cl)
        /\ heap0[cl].vt = "str"
        /\ Unclosed(heap0[cl].comment)}

\* C14: when a leaf of the new document has an annotation that is opened and
\* not closed, merge neither loops forever nor returns: it ends by a fault.
C14_UnclosedIsFault ==
    UnclosedLeaves # {} => (pc # "hang" /\ pc # "done")

\* merge returned although it visited a leaf with an unclosed annotation
C14_UnclosedClassified ==
    ~(/\ pc = "done"
      /\ \E i \in 1..Len(log) :
             /\ log[i].n \in UnclosedLeaves
             /\ Unclosed(log[i].line0.comment)
             /\ log[i].res = "KeyError")

\* merge loops forever on a leaf with an unclosed annotation
C14_UnclosedHangs == ~(pc = "hang" /\ UnclosedLeaves # {})

\* C15: in every document the parser accepts, the yaml path computed for any
\* code line is not empty and starts with a dot, for lines without a key and
\* for list items at the root as well.
C15_NonEmptyKey ==
    pc = "doc" =>
        \A cl \in 1..Len(heap) :
            IsCodeLine(heap, cl) =>
                LET k == computeKey(heap, <<>>, cl).key
                IN  k # "" /\ At(k, 0) = "."

\* What does hold: the same for the lines that have a key.
C15_NonEmptyKeyKeyed ==
    pc = "doc" =>
        \A cl \in 1..Len(heap) :
            (IsCodeLine(heap, cl) /\ heap[cl].hasKey) =>
                LET k == computeKey(heap, <<>>, cl).key
                IN  k # "" /\ At(k, 0) = "."

====
